---- MODULE Spec2Model ----
(***************************************************************************)
(* Model of src/cicd/cli.py (tyranno): the logging-level selector          *)
(* set_cli_state, the Messenger, and the three command handlers            *)
(* CliCommands.new / sync / clean.                                         *)
(*                                                                         *)
(* One process; commands are invoked one after another.  A handler runs    *)
(* statement by statement (pc), and no other action is enabled while a     *)
(* handler is running, so each run is the handler's code in source order.  *)
(* The collaborators that live outside cli.py (context factory, global     *)
(* variable factory, Cleaner) are modelled by their signatures: they       *)
(* return a value or raise.                                                *)
(***************************************************************************)
EXTENDS Integers, Sequences, FiniteSets, TLC

VARIABLES
    pc,          \* statement the running handler is at; "done" when it has ended, "idle" between commands
    cmd,         \* command being run: "none", "new", "sync", "clean"
    args,        \* the handler's parameters for this invocation
    cwd,         \* the process's current working directory (os.getcwd())
    handlers,    \* loguru's active sinks: set of [id, stream, level]
    logCalls,    \* number of set_cli_state calls that reached logger.add
    out,         \* lines written to standard output by Messenger in this invocation
    events,      \* steps performed by this invocation, in order
    context,     \* the handler's local `context`
    ctxCalls,    \* calls of the context factory in this invocation
    ctxArgs,     \* arguments of the last context factory call in this invocation
    globalVars,  \* module attribute _GLOBAL_VARS
    gvBuilds,    \* calls of the global variable factory since module load
    fs,          \* files present in the working tree
    fsAtStart,   \* fs when this invocation started
    produced,    \* what Cleaner(context).run() yielded in this invocation
    trashed,     \* the handler's local `trashed`
    domainCalls, \* domain operations (Cleaner, Sync) started in this invocation
    outcome,     \* "running", "ok", "early_exit", "error"
    invocations  \* commands started so far

vars == <<pc, cmd, args, cwd, handlers, logCalls, out, events, context, ctxCalls,
          ctxArgs, globalVars, gvBuilds, fs, fsAtStart, produced, trashed,
          domainCalls, outcome, invocations>>

---------------------------------------------------------------------------
(* Bounds of the model *)

MaxCount == 5        \* largest number of -v or -q occurrences
MaxFiles == 2        \* files in the working tree
MaxInvocations == 2  \* commands run in one behaviour

---------------------------------------------------------------------------
(* Python values *)

None == "<None>"
PyFalse == [type |-> "bool", value |-> 0]
PyInt(k) == [type |-> "int", value |-> k]
\* bool is a subclass of int: False takes part in arithmetic as 0
IntValue(x) == x.value

Min(a, b) == IF a <= b THEN a ELSE b
Max(a, b) == IF a >= b THEN a ELSE b

\* list[i] in Python: indices -len .. len-1 are valid, negative ones count from the end
PyIndexValid(list, i) == -Len(list) <= i /\ i < Len(list)
PyIndex(list, i) == IF i >= 0 THEN list[i + 1] ELSE list[Len(list) + i + 1]

Digit == <<"0", "1", "2", "3", "4", "5", "6", "7", "8", "9">>
RECURSIVE IntToStr(_)
\* str(n) of a non-negative int, as the f-string formats len(trashed)
IntToStr(n) == IF n < 10 THEN Digit[n + 1] ELSE IntToStr(n \div 10) \o Digit[(n % 10) + 1]

\* str(x) of a str or None, as the f-string formats name
Str(x) == IF x = None THEN "None" ELSE x

---------------------------------------------------------------------------
(* Module-level values *)

Dirs == {"/work", "/other"}
LoadCwd == "/work"                \* the working directory when the module was loaded
DefaultPath == LoadCwd            \* Path.cwd(), evaluated once when new is defined
DefaultName == "my-project"
DefaultLicense == "Apache-2.0"
GlobalVarsAtLoad == "global_vars@load"   \* DefaultGlobalVarsFactory()() at import
NoContext == [cwd |-> None, dry_run |-> FALSE, global_vars |-> None]

PathValues == {None, DefaultPath, "/proj"}
NameValues == {None, DefaultName, "demo"}
CountValues == {PyFalse} \cup {PyInt(k) : k \in 0..MaxCount}
Files == 1..MaxFiles

---------------------------------------------------------------------------
(* Messenger *)

MessengerInfo(msg) == [stream |-> "stdout", fg |-> "none", bold |-> FALSE, text |-> msg]
MessengerSuccess(msg) == [stream |-> "stdout", fg |-> "green", bold |-> TRUE, text |-> msg]
MessengerFailure(msg) == [stream |-> "stdout", fg |-> "red", bold |-> TRUE, text |-> msg]

---------------------------------------------------------------------------
(* set_cli_state *)

levels == <<"TRACE", "DEBUG", "INFO", "SUCCESS", "WARNING", "ERROR", "FATAL">>

RawIdx(verbose, quiet) == 3 + IntValue(quiet) - IntValue(verbose)

\* the usual clamp into 0..6
StdClamp(idx) == Min(6, Max(0, idx))
\* no clamp at all
NoClamp(idx) == idx
\* the clamp as written: max(6, min(0, idx))
ClampIdx(idx) == Max(6, Min(0, idx))

LevelIdx(verbose, quiet) == ClampIdx(RawIdx(verbose, quiet))

LoggerRemove(hs) == {}
LoggerAdd(hs, id, level) == hs \cup {[id |-> id, stream |-> "stderr", level |-> level]}

\* logger.add without the preceding logger.remove
SinksKeepOld(hs, id, level) == LoggerAdd(hs, id, level)
\* logger.remove(); logger.add(sys.stderr, level=level)
SinksAfterSetCliState(hs, id, level) == LoggerAdd(LoggerRemove(hs), id, level)

---------------------------------------------------------------------------
(* Collaborators outside cli.py *)

\* DefaultContextFactory()(cwd, dry_run=..., global_vars=...): an opaque value
\* built from its three arguments
ContextFactory(a) == [cwd |-> a.cwd, dry_run |-> a.dry_run, global_vars |-> a.global_vars]

Range(seq) == {seq[i] : i \in 1..Len(seq)}
\* what Cleaner(context).run() can yield: each present file at most once
CleanerYields(files) ==
    {seq \in UNION {[1..n -> files] : n \in 0..Cardinality(files)} :
        \A i, j \in 1..Len(seq) : i # j => seq[i] # seq[j]}
\* the working tree after the cleaner trashed `seq` (nothing is written on a dry run)
CleanerEffect(files, seq, dry_run) == IF dry_run THEN files ELSE files \ Range(seq)

\* process exit code the command-line framework gives each outcome
ExitCode(o) == CASE o = "ok" -> 0 [] o = "early_exit" -> 0 [] o = "error" -> 1 [] OTHER -> -1

---------------------------------------------------------------------------
(* The command handlers *)

\* sync reporting before it builds the context
BodyReportFirst(c) ==
    CASE c = "new" -> <<"guard", "set_cli_state", "context", "report">>
      [] c = "sync" -> <<"set_cli_state", "report", "context">>
      [] c = "clean" -> <<"set_cli_state", "context", "cleaner", "report">>
      [] OTHER -> <<>>
\* the statements of each handler, in source order
Body(c) ==
    CASE c = "new" -> <<"guard", "set_cli_state", "context", "report">>
      [] c = "sync" -> <<"set_cli_state", "context", "report">>
      [] c = "clean" -> <<"set_cli_state", "context", "cleaner", "report">>
      [] OTHER -> <<>>

FirstPc(c) == Body(c)[1]
NextPc(c, p) ==
    LET b == Body(c)
        i == CHOOSE k \in 1..Len(b) : b[k] = p
    IN  IF i < Len(b) THEN b[i + 1] ELSE "done"

\* the context factory called with dry_run left out
ContextArgsNoDryRun == [cwd |-> cwd, dry_run |-> FALSE, global_vars |-> globalVars]
\* (Path(os.getcwd()), dry_run=dry_run, global_vars=_GLOBAL_VARS)
ContextArgs == [cwd |-> cwd, dry_run |-> args.dry_run, global_vars |-> globalVars]

NewReport(name) ==
    << MessengerInfo("Done! Created a new repository under " \o Str(name)),
       MessengerSuccess("See https://dmyersturnbull.github.io/tyranno/guide.html") >>

\* sync with the commented-out success line put back
SyncReportWithDone ==
    << MessengerInfo("Syncing metadata..."), MessengerSuccess("Done. Synced to targets") >>
SyncReport == << MessengerInfo("Syncing metadata...") >>

\* the count off by one
CleanReportOffByOne(list) ==
    << MessengerInfo("Trashed " \o IntToStr(Len(list) + 1) \o " paths.") >>
CleanReport(list) == << MessengerInfo("Trashed " \o IntToStr(Len(list)) \o " paths.") >>

Report(c) ==
    CASE c = "new" -> NewReport(args.name)
      [] c = "sync" -> SyncReport
      [] c = "clean" -> CleanReport(trashed)
      [] OTHER -> <<>>

ArgsOf(c) ==
    IF c = "new"
    THEN [path : PathValues, name : NameValues, license_id : {DefaultLicense},
          dry_run : BOOLEAN, verbose : CountValues, quiet : CountValues]
    ELSE [path : {None}, name : {None}, license_id : {None},
          dry_run : BOOLEAN, verbose : CountValues, quiet : CountValues]

NoArgs == [path |-> None, name |-> None, license_id |-> None,
           dry_run |-> FALSE, verbose |-> PyFalse, quiet |-> PyFalse]

Init ==
    /\ pc = "idle"
    /\ cmd = "none"
    /\ args = NoArgs
    /\ cwd = LoadCwd
    \* loguru starts with its default sink
    /\ handlers = {[id |-> 0, stream |-> "stderr", level |-> "DEBUG"]}
    /\ logCalls = 0
    /\ out = <<>>
    /\ events = <<>>
    /\ context = NoContext
    /\ ctxCalls = 0
    /\ ctxArgs = NoContext
    /\ globalVars = GlobalVarsAtLoad
    /\ gvBuilds = 1
    /\ fs = Files
    /\ fsAtStart = Files
    /\ produced = <<>>
    /\ trashed = <<>>
    /\ domainCalls = 0
    /\ outcome = "running"
    /\ invocations = 0

\* the statement at pc returned: go to the next one, or return from the handler
Advance ==
    /\ pc' = NextPc(cmd, pc)
    /\ outcome' = IF NextPc(cmd, pc) = "done" THEN "ok" ELSE outcome

\* an exception leaves the handler: nothing in cli.py catches it
Propagate ==
    /\ pc' = "done"
    /\ outcome' = "error"

\* the framework dispatches a command with its parsed parameters
Invoke ==
    /\ pc = "idle"
    /\ invocations < MaxInvocations
    /\ \E c \in {"new", "sync", "clean"} : \E a \in ArgsOf(c) :
        /\ cmd' = c
        /\ args' = a
        /\ pc' = FirstPc(c)
    /\ cwd' \in Dirs
    /\ invocations' = invocations + 1
    /\ out' = <<>>
    /\ events' = <<>>
    /\ context' = NoContext
    /\ ctxCalls' = 0
    /\ ctxArgs' = NoContext
    /\ produced' = <<>>
    /\ trashed' = <<>>
    /\ domainCalls' = 0
    /\ fsAtStart' = fs
    /\ outcome' = "running"
    /\ UNCHANGED <<handlers, logCalls, globalVars, gvBuilds, fs>>

\* new: if path is None and name is None: raise typer.Exit()
Guard ==
    /\ pc = "guard"
    /\ IF args.path = None /\ args.name = None
       THEN pc' = "done" /\ outcome' = "early_exit"
       ELSE Advance
    /\ UNCHANGED <<cmd, args, cwd, handlers, logCalls, out, events, context, ctxCalls,
                   ctxArgs, globalVars, gvBuilds, fs, fsAtStart, produced, trashed,
                   domainCalls, invocations>>

\* set_cli_state(verbose=verbose, quiet=quiet)
SetCliState ==
    /\ pc = "set_cli_state"
    /\ LET idx == LevelIdx(args.verbose, args.quiet)
       IN  IF PyIndexValid(levels, idx)
           THEN /\ handlers' = SinksAfterSetCliState(handlers, logCalls + 1, PyIndex(levels, idx))
                /\ logCalls' = logCalls + 1
                /\ events' = Append(events, "set_cli_state")
                /\ Advance
           ELSE \* IndexError at the lookup, before logger.remove()
                /\ Propagate
                /\ UNCHANGED <<handlers, logCalls, events>>
    /\ UNCHANGED <<cmd, args, cwd, out, context, ctxCalls, ctxArgs, globalVars, gvBuilds,
                   fs, fsAtStart, produced, trashed, domainCalls, invocations>>

\* a handler that catches the factory's error and reports it
BuildContextCaught ==
    /\ pc = "context"
    /\ ctxCalls' = ctxCalls + 1
    /\ ctxArgs' = ContextArgs
    /\ events' = Append(events, "context")
    /\ \E raises \in BOOLEAN :
        IF raises
        THEN /\ out' = Append(out, MessengerFailure("Could not build the context"))
             /\ Propagate
             /\ UNCHANGED context
        ELSE /\ context' = ContextFactory(ContextArgs)
             /\ Advance
             /\ UNCHANGED out
    /\ UNCHANGED <<cmd, args, cwd, handlers, logCalls, globalVars, gvBuilds, fs,
                   fsAtStart, produced, trashed, domainCalls, invocations>>
\* context = DefaultContextFactory()(Path(os.getcwd()), dry_run=dry_run, global_vars=_GLOBAL_VARS)
BuildContext ==
    /\ pc = "context"
    /\ ctxCalls' = ctxCalls + 1
    /\ ctxArgs' = ContextArgs
    /\ events' = Append(events, "context")
    /\ \E raises \in BOOLEAN :
        IF raises
        THEN Propagate /\ UNCHANGED context
        ELSE context' = ContextFactory(ContextArgs) /\ Advance
    /\ UNCHANGED <<cmd, args, cwd, handlers, logCalls, out, globalVars, gvBuilds, fs,
                   fsAtStart, produced, trashed, domainCalls, invocations>>

\* trashed = list(Cleaner(context).run())
CleanerRun ==
    /\ pc = "cleaner"
    /\ domainCalls' = domainCalls + 1
    /\ events' = Append(events, "cleaner")
    /\ \E fail \in {"none", "construct", "consume"} :
        CASE fail = "construct" ->
                /\ Propagate
                /\ UNCHANGED <<produced, trashed, fs>>
          [] fail = "consume" ->
                \* run() raises after yielding seq
                \E seq \in CleanerYields(fs) :
                    /\ produced' = seq
                    /\ fs' = CleanerEffect(fs, seq, context.dry_run)
                    /\ Propagate
                    /\ UNCHANGED trashed
          [] fail = "none" ->
                \E seq \in CleanerYields(fs) :
                    /\ produced' = seq
                    /\ fs' = CleanerEffect(fs, seq, context.dry_run)
                    /\ trashed' = seq
                    /\ Advance
    /\ UNCHANGED <<cmd, args, cwd, handlers, logCalls, out, context, ctxCalls, ctxArgs,
                   globalVars, gvBuilds, fsAtStart, invocations>>

\* the handler's messenger.info / messenger.success calls
ReportStep ==
    /\ pc = "report"
    /\ out' = out \o Report(cmd)
    /\ events' = events \o [i \in 1..Len(Report(cmd)) |-> "messenger"]
    /\ Advance
    /\ UNCHANGED <<cmd, args, cwd, handlers, logCalls, context, ctxCalls, ctxArgs,
                   globalVars, gvBuilds, fs, fsAtStart, produced, trashed, domainCalls,
                   invocations>>

\* the handler's frame is gone and the framework has handed back the exit code
Exit ==
    /\ pc = "done"
    /\ pc' = "idle"
    /\ cmd' = "none"
    /\ args' = NoArgs
    /\ out' = <<>>
    /\ events' = <<>>
    /\ context' = NoContext
    /\ ctxCalls' = 0
    /\ ctxArgs' = NoContext
    /\ produced' = <<>>
    /\ trashed' = <<>>
    /\ domainCalls' = 0
    /\ fsAtStart' = fs
    /\ outcome' = "running"
    /\ UNCHANGED <<cwd, handlers, logCalls, globalVars, gvBuilds, fs, invocations>>

Next ==
    \/ Invoke
    \/ Exit
    \/ Guard
    \/ SetCliState
    \/ BuildContext
    \/ CleanerRun
    \/ ReportStep

Spec == Init /\ [][Next]_vars

---------------------------------------------------------------------------
(* Properties *)

Did(step) == \E i \in 1..Len(events) : events[i] = step
Before(step, i) == \E j \in 1..(i - 1) : events[j] = step
Sink(id, level) == [id |-> id, stream |-> "stderr", level |-> level]

\* C1: after set_cli_state(verbose, quiet) the stderr sink is at levels[i], with
\* i = 3 + quiet - verbose clamped into 0..6 (no flags SUCCESS, -v INFO, -q WARNING, ...)
C1_SinkAtClampedLevel ==
    Did("set_cli_state") =>
        handlers = {Sink(logCalls, PyIndex(levels, StdClamp(RawIdx(args.verbose, args.quiet))))}

\* C2: there is always exactly one active sink, and once set_cli_state has been
\* called it is the stderr sink installed by the most recent call
C2_ExactlyOneSink ==
    /\ Cardinality(handlers) = 1
    /\ logCalls >= 1 => \A h \in handlers : h.id = logCalls /\ h.stream = "stderr"
C2_SecondCallReplacedFirst ==
    /\ logCalls = 2
    /\ Did("set_cli_state")
    /\ handlers = {Sink(2, "FATAL")}

\* C3: new with path and name left at their defaults takes the early exit: no
\* set_cli_state, no context factory call, no Messenger message
C3_NoArgumentsExitsEarly ==
    (cmd = "new" /\ args.path = DefaultPath /\ args.name = DefaultName /\ pc # "guard") =>
        /\ outcome = "early_exit"
        /\ ctxCalls = 0
        /\ ~Did("set_cli_state")
        /\ out = <<>>

\* C4: when the cleaner has produced its sequence, clean has collected all of it and
\* has written exactly one plain line "Trashed <n> paths." with n the sequence's length
C4_CleanReportsCount ==
    (cmd = "clean" /\ outcome = "ok") =>
        /\ trashed = produced
        /\ out = << MessengerInfo("Trashed " \o IntToStr(Len(produced)) \o " paths.") >>
C4_TwoPathsReported ==
    /\ cmd = "clean"
    /\ outcome = "ok"
    /\ Len(produced) = 2
    /\ out = << MessengerInfo("Trashed 2 paths.") >>

C6_StepOrder ==
    \A i \in 1..Len(events) :
        /\ events[i] = "context" => Before("set_cli_state", i)
        /\ events[i] = "cleaner" => Before("context", i)
        /\ events[i] = "messenger" =>
              /\ Before("context", i)
              /\ cmd = "clean" => Before("cleaner", i)
C6_CleanRanAllSteps ==
    /\ cmd = "clean"
    /\ events = <<"set_cli_state", "context", "cleaner", "messenger">>

\* C7: when a collaborator raises, the command ends with a non-zero exit code, has
\* written no Messenger line, and the sink set_cli_state installed is still the
\* active one
C7_ErrorsPropagate ==
    outcome = "error" =>
        /\ pc = "done"
        /\ ExitCode(outcome) # 0
        /\ out = <<>>
        /\ Did("set_cli_state")
        /\ handlers = {Sink(logCalls, PyIndex(levels, LevelIdx(args.verbose, args.quiet)))}
C7_CleanerRaisedWhileConsumed ==
    /\ cmd = "clean"
    /\ outcome = "error"
    /\ Len(produced) = 1
    /\ out = <<>>

\* C8: a command that returns normally has called the context factory once, with
\* the current working directory, its own dry_run and the global variable set;
\* the global variable set is the one built at module load, built once
C8_ContextBuiltOnce ==
    /\ outcome = "ok" =>
          /\ ctxCalls = 1
          /\ ctxArgs = [cwd |-> cwd, dry_run |-> args.dry_run, global_vars |-> GlobalVarsAtLoad]
          /\ context = ContextFactory(ctxArgs)
    /\ globalVars = GlobalVarsAtLoad
    /\ gvBuilds = 1
C8_SecondCommandDryRun ==
    /\ invocations = 2
    /\ cmd = "new"
    /\ outcome = "ok"
    /\ args.dry_run
    /\ args.path = "/proj"
    /\ cwd = "/other"
    /\ ctxCalls = 1

\* C9: whenever 3 + quiet - verbose is not 0, max(6, min(0, idx)) is 6 and the sink
\* is installed at FATAL
C9_WrittenClampGivesUpperBound ==
    (Did("set_cli_state") /\ RawIdx(args.verbose, args.quiet) # 0) =>
        /\ LevelIdx(args.verbose, args.quiet) = 6
        /\ handlers = {Sink(logCalls, "FATAL")}
C9_FiveVerboseGivesFatal ==
    /\ Did("set_cli_state")
    /\ args.verbose = PyInt(5)
    /\ args.quiet = PyInt(0)
    /\ RawIdx(args.verbose, args.quiet) = -2
    /\ handlers = {Sink(logCalls, "FATAL")}

\* C10: the index set_cli_state looks up is always in 0..6, so no command fails
\* before its sink is installed, and the installed level depends on this call's
\* verbose and quiet only
C10_IndexInRange ==
    /\ outcome = "error" => Did("set_cli_state")
    /\ Did("set_cli_state") =>
          /\ LevelIdx(args.verbose, args.quiet) \in 0..6
          /\ handlers = {Sink(logCalls, levels[LevelIdx(args.verbose, args.quiet) + 1])}
C10_RawIndexAboveScale ==
    /\ Did("set_cli_state")
    /\ args.verbose = PyFalse
    /\ RawIdx(args.verbose, args.quiet) > 6
    /\ Cardinality(handlers) = 1

====
